---------------------------- MODULE Spec2Model ----------------------------
(***************************************************************************)
(* A model of the x11rb wire-format core:                                  *)
(*   - the generic packet classifier (GenericEvent / GenericError and the  *)
(*     Event trait) of src/x11_utils.rs,                                   *)
(*   - the primitive codec (TryParse / Serialize) of src/x11_utils.rs,     *)
(*   - the Xinerama request functions of src/protocol/xinerama.rs, run by  *)
(*     several threads against one connection.                             *)
(*                                                                         *)
(* Machine integers keep their width.  TLC's integers are 32 bit, so a     *)
(* u32/u64/usize is a sequence of 16-bit limbs, least significant first.   *)
(***************************************************************************)
EXTENDS Integers, Sequences, FiniteSets, TLC

VARIABLES
    \* the target the crate is built for, and the build profile
    usize_bits,        \* width of usize: 32 or 64
    overflow_checks,   \* TRUE: debug build (overflow panics); FALSE: wraps
    target_endian,     \* "little" or "big": what "native order" means
    \* packet classifier
    value,             \* the Rust value the caller holds
    op,                \* the conversion that produced it
    arg,               \* the value that conversion consumed
    accepted,          \* the buffer last handed over by the transport
    view,              \* what the accessors returned for `value` (or NoView)
    \* primitive codec
    ty,                \* the primitive type in use
    v_in,              \* the value last serialized (or NoValue)
    wire,              \* the byte slice at hand
    wire_src,          \* "serialize" or "input": where `wire` came from
    result,            \* what try_parse returned for `wire` (or NoResult)
    rewire,            \* serialize(result.val) (or NoBytes)
    \* xinerama requests on one connection
    pc,                \* per thread: where it is in its request function
    cur,               \* per thread: the request function it runs
    info,              \* per thread: what extension_information returned
    ret,               \* per thread: what the request function returned
    sends,             \* per thread: send_request_with_reply calls of this call
    ext_state,         \* the connection's cache entry for the extension
    queries,           \* information queries issued to the server
    conn_closed,       \* the connection has failed
    observed,          \* every Ok result extension_information has returned
    sent,              \* how many send_request_with_reply calls the transport got
    calls              \* request functions called so far

platform == <<usize_bits, overflow_checks, target_endian>>
pvars == <<value, op, arg, accepted, view>>
cvars == <<ty, v_in, wire, wire_src, result, rewire>>
xvars == <<pc, cur, info, ret, sends, ext_state, queries, conn_closed, observed,
           sent, calls>>
vars == <<platform, pvars, cvars, xvars>>

---------------------------------------------------------------------------
(* Bounds of the model *)

\* buffers handed over have 32 + 4*k bytes, k <= MaxWords (and a few odd sizes)
MaxWords == 2
\* byte slices given to try_parse have at most MaxSliceLen bytes
MaxSliceLen == 10
\* at most MaxExtra bytes follow a serialized value on the wire
MaxExtra == 2
\* threads sharing the connection
NumThreads == 2
\* request functions called on the connection, over all threads
MaxCalls == 3

---------------------------------------------------------------------------
(* Bytes and machine words *)

\* the base of a limb, 2^16
LIMB == 256 * 256

RECURSIVE BitAnd(_, _)
\* a & b on naturals
BitAnd(a, b) ==
    IF a = 0 \/ b = 0 THEN 0
    ELSE (a % 2) * (b % 2) + 2 * BitAnd(a \div 2, b \div 2)

Reverse(s) == [i \in 1..Len(s) |-> s[Len(s) + 1 - i]]

\* the bytes of a native-order array, least significant first
ne_to_le(bytes) == IF target_endian = "little" THEN bytes ELSE Reverse(bytes)

\* u16::from_ne_bytes
u16_from_ne_bytes(bytes) ==
    LET le == ne_to_le(bytes) IN le[1] + 256 * le[2]

\* u32::from_ne_bytes: two limbs
u32_from_ne_bytes(bytes) ==
    LET le == ne_to_le(bytes) IN <<le[1] + 256 * le[2], le[3] + 256 * le[4]>>

usize_limbs == usize_bits \div 16

\* a small natural (n < 2^32) as a usize
usize_of(n) == [i \in 1..usize_limbs |-> IF i = 1 THEN n % LIMB
                                         ELSE IF i = 2 THEN n \div LIMB ELSE 0]

\* usize::try_from(u32), src/x11_utils.rs:86: fails when the value does not fit
usize_try_from_u32(u) ==
    IF \E i \in 1..Len(u) : i > usize_limbs /\ u[i] # 0
    THEN [ok |-> FALSE]
    ELSE [ok |-> TRUE,
          val |-> [i \in 1..usize_limbs |-> IF i <= Len(u) THEN u[i] ELSE 0]]

RECURSIVE limbs_mul_small(_, _, _)
\* limbs * k + carry for a small k: <<limbs of the product..., carry out>>
limbs_mul_small(limbs, k, carry) ==
    IF limbs = <<>> THEN <<carry>>
    ELSE LET p == Head(limbs) * k + carry
         IN <<p % LIMB>> \o limbs_mul_small(Tail(limbs), k, p \div LIMB)

\* k * a in usize arithmetic: the wrapped product and whether it overflowed
usize_mul_small(k, a) ==
    LET r == limbs_mul_small(a, k, 0)
    IN [val |-> SubSeq(r, 1, Len(a)), overflow |-> r[Len(a) + 1] # 0]

\* k + a in usize arithmetic: the wrapped sum and whether it overflowed
usize_add_small(k, a) ==
    LET r == limbs_mul_small(a, 1, k)
    IN [val |-> SubSeq(r, 1, Len(a)), overflow |-> r[Len(a) + 1] # 0]

---------------------------------------------------------------------------
(* Rust values of the packet classifier *)

NoValue == [tag |-> "None"]
Buffer(bytes) == [tag |-> "Buffer", bytes |-> bytes]
GenericEvent(bytes) == [tag |-> "GenericEvent", bytes |-> bytes]
GenericError(bytes) == [tag |-> "GenericError", bytes |-> bytes]
ParseError == [tag |-> "Err", err |-> "ParseError"]
\* the thread unwound: an arithmetic overflow or an index out of bounds
Panic(why) == [tag |-> "Panic", why |-> why]

REPLY == 1
GE_GENERIC_EVENT == 35
KEYMAP_NOTIFY_EVENT == 11

---------------------------------------------------------------------------
(* trait Event, GenericEvent, GenericError *)

\* the outcome of an expression that may panic
Val(v) == [panic |-> FALSE, val |-> v]
Panicked == [panic |-> TRUE]

\* bytes[i] on a slice: an index past the end panics
index(bytes, i) == IF i < Len(bytes) THEN Val(bytes[i + 1]) ELSE Panicked

\* Event::raw_bytes
raw_bytes(self) == self.bytes

\* Event::raw_response_type
raw_response_type(self) == index(raw_bytes(self), 0)

\* Event::response_type
response_type(self) ==
    LET r == raw_response_type(self)
    IN IF r.panic THEN Panicked ELSE Val(BitAnd(r.val, 127))

\* Event::server_generated
server_generated(self) ==
    LET r == raw_response_type(self)
    IN IF r.panic THEN Panicked ELSE Val(BitAnd(r.val, 128) = 0)

None == [some |-> FALSE]
Some(v) == [some |-> TRUE, val |-> v]

\* raw_sequence_number with the kind compared before bit 7 is masked off
raw_sequence_number_unmasked(self) ==
    LET rt == raw_response_type(self)
    IN IF rt.panic THEN Panicked
       ELSE IF rt.val = KEYMAP_NOTIFY_EVENT THEN Val(None)
       ELSE LET bytes == raw_bytes(self)
                b2 == index(bytes, 2)
                b3 == index(bytes, 3)
            IN IF b2.panic \/ b3.panic THEN Panicked
               ELSE Val(Some(u16_from_ne_bytes(<<b2.val, b3.val>>)))

\* Event::raw_sequence_number
raw_sequence_number(self) ==
    LET rt == response_type(self)
    IN IF rt.panic THEN Panicked
       ELSE IF rt.val = KEYMAP_NOTIFY_EVENT THEN Val(None)
       ELSE LET bytes == raw_bytes(self)
                b2 == index(bytes, 2)
                b3 == index(bytes, 3)
            IN IF b2.panic \/ b3.panic THEN Panicked
               ELSE Val(Some(u16_from_ne_bytes(<<b2.val, b3.val>>)))

\* GenericError::error_code
error_code(self) == index(raw_bytes(self), 1)

\* impl TryFrom<Buffer> for GenericEvent
GenericEvent_try_from(buf) ==
    IF Len(buf) < 32 THEN ParseError
    ELSE
    LET length_field_u32 == u32_from_ne_bytes(<<buf[5], buf[6], buf[7], buf[8]>>)
        conv == usize_try_from_u32(length_field_u32)
    IN IF ~conv.ok THEN ParseError
       ELSE
       LET length_field == conv.val
           actual_length == usize_of(Len(buf))
           event == GenericEvent(buf)
           rt == response_type(event)
           prod == usize_mul_small(4, length_field)
           sum == usize_add_small(32, prod.val)
       IN IF rt.panic THEN Panic("index out of bounds")
          ELSE IF rt.val \in {GE_GENERIC_EVENT, REPLY}
          THEN IF overflow_checks /\ prod.overflow
               THEN Panic("attempt to multiply with overflow")
               ELSE IF overflow_checks /\ sum.overflow
               THEN Panic("attempt to add with overflow")
               ELSE IF actual_length # sum.val THEN ParseError ELSE event
          ELSE IF actual_length # usize_of(32) THEN ParseError ELSE event

\* impl Into<Buffer> for GenericEvent
GenericEvent_into_Buffer(self) == Buffer(self.bytes)

\* impl Into<Buffer> for GenericError
GenericError_into_Buffer(self) == Buffer(self.bytes)

\* impl From<GenericError> for GenericEvent
GenericEvent_from_GenericError(err) == GenericEvent(GenericError_into_Buffer(err).bytes)

\* the narrowing with the whole of byte 0 compared with 0
GenericError_try_from_GenericEvent_raw(event) ==
    LET rt == raw_response_type(event)
    IN IF rt.panic THEN Panic("index out of bounds")
       ELSE IF rt.val # 0 THEN ParseError
       ELSE GenericError(GenericEvent_into_Buffer(event).bytes)

\* impl TryFrom<GenericEvent> for GenericError
GenericError_try_from_GenericEvent(event) ==
    LET rt == response_type(event)
    IN IF rt.panic THEN Panic("index out of bounds")
       ELSE IF rt.val # 0 THEN ParseError
       ELSE GenericError(GenericEvent_into_Buffer(event).bytes)

\* impl TryFrom<Buffer> for GenericError
GenericError_try_from(buf) ==
    LET event == GenericEvent_try_from(buf)
    IN IF event.tag # "GenericEvent" THEN event
       ELSE GenericError_try_from_GenericEvent(event)

---------------------------------------------------------------------------
(* The buffers the transport may hand over *)

Byte0s == {0, 1, 2, 11, 34, 35, 127, 128, 129, 139, 163}
\* byte 1 and the two sequence-number bytes
Byte123s == {<<0, 0, 0>>, <<3, 5, 0>>, <<3, 0, 5>>, <<17, 255, 254>>}
\* the four bytes of the length field: 0, 1, 2, 2^30, 2^30 + 1, 2^30 - 8,
\* 2^32 - 1 and more, in either byte order
LengthBytes == {<<0, 0, 0, 0>>, <<1, 0, 0, 0>>, <<0, 0, 0, 1>>,
                <<2, 0, 0, 0>>, <<0, 0, 0, 2>>,
                <<0, 0, 0, 64>>, <<64, 0, 0, 0>>,
                <<1, 0, 0, 64>>, <<64, 0, 0, 1>>,
                <<248, 255, 255, 63>>, <<63, 255, 255, 248>>,
                <<255, 255, 255, 255>>}
BufferLens == {0, 3, 7, 31, 33} \cup {32 + 4 * k : k \in 0..MaxWords}

\* a buffer of n bytes with the given first eight bytes
MkBuffer(n, b0, b123, lb) ==
    [i \in 1..n |-> CASE i = 1 -> b0
                      [] i \in 2..4 -> b123[i - 1]
                      [] i \in 5..8 -> lb[i - 4]
                      [] OTHER -> (7 * i) % 256]

Buffers == {MkBuffer(n, b0, b123, lb) :
                n \in BufferLens, b0 \in Byte0s, b123 \in Byte123s, lb \in LengthBytes}

NoView == [tag |-> "NoView"]

---------------------------------------------------------------------------
(* The packet classifier as a state machine: one caller, one packet *)

Platforms == {32, 64} \X BOOLEAN \X {"little", "big"}

InitPlatform ==
    \E p \in Platforms :
        /\ usize_bits = p[1]
        /\ overflow_checks = p[2]
        /\ target_endian = p[3]

InitPacket ==
    /\ value = NoValue
    /\ op = "none"
    /\ arg = NoValue
    /\ accepted = <<>>
    /\ view = NoView

\* the transport hands a buffer to the caller
Receive ==
    /\ value.tag = "None"
    /\ \E b \in Buffers :
        /\ value' = Buffer(b)
        /\ accepted' = b
    /\ op' = "receive"
    /\ arg' = NoValue
    /\ view' = NoView
    /\ UNCHANGED <<platform, cvars, xvars>>

\* GenericEvent::try_from(buffer)
EventTryFromBuffer ==
    /\ value.tag = "Buffer"
    /\ value' = GenericEvent_try_from(value.bytes)
    /\ op' = "GenericEvent::try_from(Buffer)"
    /\ arg' = value
    /\ view' = NoView
    /\ UNCHANGED <<accepted, platform, cvars, xvars>>

\* GenericError::try_from(buffer)
ErrorTryFromBuffer ==
    /\ value.tag = "Buffer"
    /\ value' = GenericError_try_from(value.bytes)
    /\ op' = "GenericError::try_from(Buffer)"
    /\ arg' = value
    /\ view' = NoView
    /\ UNCHANGED <<accepted, platform, cvars, xvars>>

\* GenericError::try_from(event)
ErrorTryFromEvent ==
    /\ value.tag = "GenericEvent"
    /\ value' = GenericError_try_from_GenericEvent(value)
    /\ op' = "GenericError::try_from(GenericEvent)"
    /\ arg' = value
    /\ view' = NoView
    /\ UNCHANGED <<accepted, platform, cvars, xvars>>

\* GenericEvent::from(error)
EventFromError ==
    /\ value.tag = "GenericError"
    /\ value' = GenericEvent_from_GenericError(value)
    /\ op' = "GenericEvent::from(GenericError)"
    /\ arg' = value
    /\ view' = NoView
    /\ UNCHANGED <<accepted, platform, cvars, xvars>>

\* event.into(): back to the buffer
EventIntoBuffer ==
    /\ value.tag = "GenericEvent"
    /\ value' = GenericEvent_into_Buffer(value)
    /\ op' = "GenericEvent::into(Buffer)"
    /\ arg' = value
    /\ view' = NoView
    /\ UNCHANGED <<accepted, platform, cvars, xvars>>

\* error.into(): back to the buffer
ErrorIntoBuffer ==
    /\ value.tag = "GenericError"
    /\ value' = GenericError_into_Buffer(value)
    /\ op' = "GenericError::into(Buffer)"
    /\ arg' = value
    /\ view' = NoView
    /\ UNCHANGED <<accepted, platform, cvars, xvars>>

\* the caller reads the packet through the accessors
Inspect ==
    /\ value.tag \in {"GenericEvent", "GenericError"}
    /\ view = NoView
    /\ view' = [tag |-> "View",
                raw_response_type |-> raw_response_type(value),
                response_type |-> response_type(value),
                server_generated |-> server_generated(value),
                raw_sequence_number |-> raw_sequence_number(value),
                error_code |-> IF value.tag = "GenericError"
                               THEN error_code(value) ELSE Val(None)]
    /\ UNCHANGED <<value, op, arg, accepted, platform, cvars, xvars>>

---------------------------------------------------------------------------
(* Primitive values.  An integer is a sign and a magnitude of four 16-bit  *)
(* limbs; a float is its sign, biased exponent and mantissa; a bool is a   *)
(* BOOLEAN.                                                                *)

Types == {"u8", "i8", "u16", "i16", "u32", "i32", "u64", "i64", "bool", "f32", "f64"}
IntTypes == {"u8", "i8", "u16", "i16", "u32", "i32", "u64", "i64"}
SignedTypes == {"i8", "i16", "i32", "i64"}

\* std::mem::size_of::<$t>()
size_of(t) ==
    CASE t \in {"u8", "i8", "bool"} -> 1
      [] t \in {"u16", "i16"} -> 2
      [] t \in {"u32", "i32", "f32"} -> 4
      [] t \in {"u64", "i64", "f64"} -> 8

Pos(l1, l2, l3, l4) == [neg |-> FALSE, mag |-> <<l1, l2, l3, l4>>]
Neg(l1, l2, l3, l4) == [neg |-> TRUE, mag |-> <<l1, l2, l3, l4>>]
Float(sign, exp, m) == [sign |-> sign, exp |-> exp, mant |-> m]

Values(t) ==
    CASE t = "u8" -> {Pos(b, 0, 0, 0) : b \in 0..255}
      [] t = "i8" -> {Pos(b, 0, 0, 0) : b \in 0..127}
                     \cup {Neg(b, 0, 0, 0) : b \in 1..128}
      [] t = "u16" -> {Pos(l, 0, 0, 0) : l \in {0, 1, 255, 256, 4660, 32768, 65535}}
      [] t = "i16" -> {Pos(l, 0, 0, 0) : l \in {0, 1, 256, 4660, 32767}}
                      \cup {Neg(l, 0, 0, 0) : l \in {1, 256, 4660, 32768}}
      [] t = "u32" -> {Pos(0, 0, 0, 0), Pos(1, 0, 0, 0), Pos(0, 1, 0, 0),
                       Pos(22136, 4660, 0, 0), Pos(0, 32768, 0, 0),
                       Pos(65535, 65535, 0, 0)}
      [] t = "i32" -> {Pos(0, 0, 0, 0), Pos(1, 0, 0, 0), Pos(22136, 4660, 0, 0),
                       Pos(65535, 32767, 0, 0), Neg(1, 0, 0, 0),
                       Neg(22136, 4660, 0, 0), Neg(0, 1, 0, 0), Neg(0, 32768, 0, 0)}
      [] t = "u64" -> {Pos(0, 0, 0, 0), Pos(1, 0, 0, 0), Pos(0, 0, 1, 0),
                       Pos(30600, 21862, 13124, 4386), Pos(0, 0, 0, 32768),
                       Pos(65535, 65535, 65535, 65535)}
      [] t = "i64" -> {Pos(0, 0, 0, 0), Pos(1, 0, 0, 0),
                       Pos(30600, 21862, 13124, 4386),
                       Pos(65535, 65535, 65535, 32767), Neg(1, 0, 0, 0),
                       Neg(30600, 21862, 13124, 4386), Neg(0, 0, 1, 0),
                       Neg(0, 0, 0, 32768)}
      [] t = "bool" -> BOOLEAN
      \* zeros, one, a denormal, infinities, quiet and signalling NaNs with payloads
      [] t = "f32" -> {Float(0, 0, <<0, 0>>), Float(1, 0, <<0, 0>>),
                       Float(0, 127, <<0, 0>>), Float(0, 0, <<1, 0>>),
                       Float(0, 133, <<26505, 69>>),
                       Float(0, 255, <<0, 0>>), Float(1, 255, <<0, 0>>),
                       Float(0, 255, <<0, 64>>), Float(1, 255, <<1, 0>>),
                       Float(0, 255, <<4660, 42>>)}
      [] t = "f64" -> {Float(0, 0, <<0, 0, 0, 0>>), Float(1, 0, <<0, 0, 0, 0>>),
                       Float(0, 1023, <<0, 0, 0, 0>>), Float(0, 0, <<1, 0, 0, 0>>),
                       Float(0, 1029, <<26505, 17767, 291, 9>>),
                       Float(0, 2047, <<0, 0, 0, 0>>), Float(1, 2047, <<0, 0, 0, 0>>),
                       Float(0, 2047, <<0, 0, 0, 8>>), Float(1, 2047, <<1, 0, 0, 0>>),
                       Float(0, 2047, <<4660, 22136, 39612, 5>>)}

---------------------------------------------------------------------------
(* to_ne_bytes / from_ne_bytes / to_bits / from_bits *)

\* the magnitude's bytes, least significant first
mag_le_bytes(mag, w) ==
    [i \in 1..w |-> LET l == mag[(i + 1) \div 2]
                    IN IF i % 2 = 1 THEN l % 256 ELSE l \div 256]

\* the limbs of w little-endian bytes
le_bytes_mag(le) ==
    [j \in 1..4 |-> (IF 2 * j - 1 <= Len(le) THEN le[2 * j - 1] ELSE 0)
                    + 256 * (IF 2 * j <= Len(le) THEN le[2 * j] ELSE 0)]

RECURSIVE bytes_add_small(_, _)
\* bytes + carry, wrapping at the width of `bytes`
bytes_add_small(bytes, carry) ==
    IF bytes = <<>> THEN <<>>
    ELSE LET x == Head(bytes) + carry
         IN <<x % 256>> \o bytes_add_small(Tail(bytes), x \div 256)

\* two's complement negation at the width of `bytes`
twos_complement(bytes) ==
    bytes_add_small([i \in 1..Len(bytes) |-> 255 - bytes[i]], 1)

\* the native-order array with the given little-endian bytes
le_to_ne(le) == IF target_endian = "little" THEN le ELSE Reverse(le)

\* <$t>::to_ne_bytes for the integer types
to_ne_bytes(t, v) ==
    LET m == mag_le_bytes(v.mag, size_of(t))
    IN le_to_ne(IF v.neg THEN twos_complement(m) ELSE m)

\* <$t>::from_ne_bytes for the integer types
from_ne_bytes(t, bytes) ==
    LET le == ne_to_le(bytes)
    IN IF t \in SignedTypes /\ le[Len(le)] >= 128
       THEN [neg |-> TRUE, mag |-> le_bytes_mag(twos_complement(le))]
       ELSE [neg |-> FALSE, mag |-> le_bytes_mag(le)]

\* to_bits that quiets every NaN and drops its payload
to_bits_quiet_nan(t, f) ==
    IF t = "f32"
    THEN IF f.exp = 255 /\ f.mant # <<0, 0>>
         THEN Pos(0, f.sign * 32768 + 255 * 128 + 64, 0, 0)
         ELSE Pos(f.mant[1], f.sign * 32768 + f.exp * 128 + f.mant[2], 0, 0)
    ELSE IF f.exp = 2047 /\ f.mant # <<0, 0, 0, 0>>
         THEN Pos(0, 0, 0, f.sign * 32768 + 2047 * 16 + 8)
         ELSE Pos(f.mant[1], f.mant[2], f.mant[3],
                  f.sign * 32768 + f.exp * 16 + f.mant[4])

\* f32::to_bits / f64::to_bits: the unsigned integer with the same bits
to_bits(t, f) ==
    IF t = "f32"
    THEN Pos(f.mant[1], f.sign * 32768 + f.exp * 128 + f.mant[2], 0, 0)
    ELSE Pos(f.mant[1], f.mant[2], f.mant[3], f.sign * 32768 + f.exp * 16 + f.mant[4])

\* f32::from_bits / f64::from_bits
from_bits(t, u) ==
    IF t = "f32"
    THEN Float(u.mag[2] \div 32768, (u.mag[2] % 32768) \div 128,
               <<u.mag[1], u.mag[2] % 128>>)
    ELSE Float(u.mag[4] \div 32768, (u.mag[4] % 32768) \div 16,
               <<u.mag[1], u.mag[2], u.mag[3], u.mag[4] % 16>>)

---------------------------------------------------------------------------
(* TryParse and Serialize for the primitive types *)

\* the index lists of the implement_try_parse! invocations
indicies(t) ==
    CASE t \in {"u8", "i8"} -> <<0>>
      [] t \in {"u16", "i16"} -> <<0, 1>>
      [] t \in {"u32", "i32"} -> <<0, 1, 2, 3>>
      [] t \in {"u64", "i64"} -> <<0, 1, 2, 3, 4, 5, 6, 7>>

\* the integer type a float type forwards to: forward_float!(f32: u32), (f64: u64)
forward_to(t) == IF t = "f32" THEN "u32" ELSE "u64"

ParseOk(v, rem, read) == [tag |-> "Ok", val |-> v, rem |-> rem, read |-> read]
ParseErr == [tag |-> "Err", err |-> "ParseError", read |-> {}]
ParsePanic == [tag |-> "Panic"]

\* try_parse that asks for one byte more than the type's width
int_try_parse_one_more(t, slice) ==
    LET len == size_of(t)
        idx == indicies(t)
    IN IF Len(slice) <= len THEN ParseErr
       ELSE ParseOk(from_ne_bytes(t, [k \in 1..Len(idx) |-> slice[idx[k] + 1]]),
                    SubSeq(slice, len + 1, Len(slice)),
                    {idx[k] : k \in 1..Len(idx)})

\* implement_try_parse!: try_parse for an integer type
int_try_parse(t, slice) ==
    LET len == size_of(t)
        idx == indicies(t)
    IN IF Len(slice) < len THEN ParseErr
       ELSE IF \E k \in 1..Len(idx) : idx[k] >= Len(slice) THEN ParsePanic
       ELSE IF len > Len(slice) THEN ParsePanic
       ELSE ParseOk(from_ne_bytes(t, [k \in 1..Len(idx) |-> slice[idx[k] + 1]]),
                    SubSeq(slice, len + 1, Len(slice)),
                    {idx[k] : k \in 1..Len(idx)})

\* implement_serialize!: serialize for an integer type
int_serialize(t, v) == to_ne_bytes(t, v)

\* forward_float!: try_parse for f32 and f64
float_try_parse(t, slice) ==
    LET r == int_try_parse(forward_to(t), slice)
    IN IF r.tag # "Ok" THEN r
       ELSE ParseOk(from_bits(t, r.val), r.rem, r.read)

\* forward_float!: serialize for f32 and f64
float_serialize(t, v) == int_serialize(forward_to(t), to_bits(t, v))

\* a bool parsed as "the byte is 1"
bool_try_parse_is_one(slice) ==
    LET r == int_try_parse("u8", slice)
    IN IF r.tag # "Ok" THEN r
       ELSE ParseOk(r.val = Pos(1, 0, 0, 0), r.rem, r.read)

\* impl TryParse for bool
bool_try_parse(slice) ==
    LET r == int_try_parse("u8", slice)
    IN IF r.tag # "Ok" THEN r
       ELSE ParseOk(r.val # Pos(0, 0, 0, 0), r.rem, r.read)

\* impl Serialize for bool: [*self as u8]
bool_serialize(v) == <<IF v THEN 1 ELSE 0>>

\* T::try_parse(slice)
try_parse(t, slice) ==
    CASE t \in IntTypes -> int_try_parse(t, slice)
      [] t \in {"f32", "f64"} -> float_try_parse(t, slice)
      [] t = "bool" -> bool_try_parse(slice)

\* v.serialize()
serialize(t, v) ==
    CASE t \in IntTypes -> int_serialize(t, v)
      [] t \in {"f32", "f64"} -> float_serialize(t, v)
      [] t = "bool" -> bool_serialize(v)

---------------------------------------------------------------------------
(* The codec as a state machine: a caller serializes a value or is given a *)
(* byte slice, parses it, and may serialize what it parsed.                *)

Patterns == {<<0>>, <<255>>, <<7, 0>>, <<1, 2, 3, 4, 5, 6, 7, 8, 9>>,
             <<128, 0, 0, 0, 0, 0, 0, 255>>, <<0, 0, 192, 127, 1, 0, 240, 255>>}
Pattern(p, n) == [i \in 1..n |-> p[((i - 1) % Len(p)) + 1]]
Slices == {Pattern(p, n) : p \in Patterns, n \in 0..MaxSliceLen}
Extras == {Pattern(p, n) : p \in {<<0>>, <<9, 255>>}, n \in 1..MaxExtra}

NoResult == [tag |-> "NoResult"]
NoBytes == [tag |-> "NoBytes"]
Bytes(b) == [tag |-> "Bytes", bytes |-> b]
AValue(v) == [tag |-> "Value", val |-> v]

InitCodec ==
    /\ ty = "none"
    /\ v_in = NoValue
    /\ wire = <<>>
    /\ wire_src = "none"
    /\ result = NoResult
    /\ rewire = NoBytes

\* the caller serializes a value
Serialize ==
    /\ wire_src = "none"
    /\ \E t \in Types : \E v \in Values(t) :
        /\ ty' = t
        /\ v_in' = AValue(v)
        /\ wire' = serialize(t, v)
    /\ wire_src' = "serialize"
    /\ UNCHANGED <<result, rewire, platform, pvars, xvars>>

\* more data follows the serialized value on the wire
MoreData ==
    /\ wire_src = "serialize"
    /\ result = NoResult
    /\ \E x \in Extras : wire' = wire \o x
    /\ wire_src' = "serialize+extra"
    /\ UNCHANGED <<ty, v_in, result, rewire, platform, pvars, xvars>>

\* the caller is given a byte slice to parse as some type
Input ==
    /\ wire_src = "none"
    /\ \E t \in Types : \E s \in Slices :
        /\ ty' = t
        /\ wire' = s
    /\ wire_src' = "input"
    /\ UNCHANGED <<v_in, result, rewire, platform, pvars, xvars>>

\* T::try_parse(wire)
TryParse ==
    /\ wire_src # "none"
    /\ result = NoResult
    /\ result' = try_parse(ty, wire)
    /\ UNCHANGED <<ty, v_in, wire, wire_src, rewire, platform, pvars, xvars>>

\* the parsed value is serialized again
Reserialize ==
    /\ result.tag = "Ok"
    /\ rewire = NoBytes
    /\ rewire' = Bytes(serialize(ty, result.val))
    /\ UNCHANGED <<ty, v_in, wire, wire_src, result, platform, pvars, xvars>>

---------------------------------------------------------------------------
(* The connection the request functions are given (trait                   *)
(* RequestConnection): its extension cache and its transport.              *)

Threads == 1..NumThreads

\* (major_opcode, first_event, first_error) the server may have assigned
ExtensionInfos == {[major_opcode |-> 141, first_event |-> 0, first_error |-> 0],
                   [major_opcode |-> 150, first_event |-> 91, first_error |-> 160]}

ConnOk(v) == [tag |-> "Ok", val |-> v]
ConnErr(e) == [tag |-> "Err", err |-> e]
NoReturn == [tag |-> "None"]
NoCall == [op |-> "none", req |-> <<>>]

Unresolved == [tag |-> "Unresolved"]
Resolving == [tag |-> "Resolving"]
Resolved(i) == [tag |-> "Resolved", info |-> i]
Unsupported == [tag |-> "Unsupported"]

\* what the cache holds for the extension, as extension_information returns it
cached_information(state) ==
    IF state.tag = "Resolved" THEN ConnOk(Some(state.info)) ELSE ConnOk(None)

\* extension_information that queries again while a query is in flight
extension_information_requery(t) ==
    /\ pc[t] = "major_opcode"
    /\ IF ext_state.tag \in {"Resolved", "Unsupported"}
       THEN /\ info' = [info EXCEPT ![t] = cached_information(ext_state)]
            /\ observed' = observed \cup {cached_information(ext_state)}
            /\ pc' = [pc EXCEPT ![t] = "send"]
            /\ UNCHANGED <<ext_state, queries>>
       ELSE IF conn_closed
       THEN /\ info' = [info EXCEPT ![t] = ConnErr("ConnectionClosed")]
            /\ pc' = [pc EXCEPT ![t] = "send"]
            /\ UNCHANGED <<ext_state, queries, observed>>
       ELSE /\ ext_state' = Resolving
            /\ queries' = queries + 1
            /\ pc' = [pc EXCEPT ![t] = "await"]
            /\ UNCHANGED <<info, observed>>
    /\ UNCHANGED <<cur, ret, sends, conn_closed, sent, calls,
                   platform, pvars, cvars>>

\* RequestConnection::extension_information, first part: answer from the
\* cache, or issue the information query (or wait for the one in flight)
extension_information(t) ==
    /\ pc[t] = "major_opcode"
    /\ IF ext_state.tag \in {"Resolved", "Unsupported"}
       THEN /\ info' = [info EXCEPT ![t] = cached_information(ext_state)]
            /\ observed' = observed \cup {cached_information(ext_state)}
            /\ pc' = [pc EXCEPT ![t] = "send"]
            /\ UNCHANGED <<ext_state, queries>>
       ELSE IF conn_closed
       THEN /\ info' = [info EXCEPT ![t] = ConnErr("ConnectionClosed")]
            /\ pc' = [pc EXCEPT ![t] = "send"]
            /\ UNCHANGED <<ext_state, queries, observed>>
       ELSE /\ ext_state' = Resolving
            /\ queries' = IF ext_state.tag = "Unresolved" THEN queries + 1 ELSE queries
            /\ pc' = [pc EXCEPT ![t] = "await"]
            /\ UNCHANGED <<info, observed>>
    /\ UNCHANGED <<cur, ret, sends, conn_closed, sent, calls,
                 platform, pvars, cvars>>

\* RequestConnection::extension_information, second part: the query was
\* answered (or the connection failed) and the waiting caller returns
extension_information_wake(t) ==
    /\ pc[t] = "await"
    /\ \/ /\ ext_state.tag \in {"Resolved", "Unsupported"}
          /\ info' = [info EXCEPT ![t] = cached_information(ext_state)]
          /\ observed' = observed \cup {cached_information(ext_state)}
       \/ /\ ext_state.tag = "Resolving"
          /\ conn_closed
          /\ info' = [info EXCEPT ![t] = ConnErr("ConnectionClosed")]
          /\ UNCHANGED observed
    /\ pc' = [pc EXCEPT ![t] = "send"]
    /\ UNCHANGED <<cur, ret, sends, ext_state, queries, conn_closed, sent, calls,
                 platform, pvars, cvars>>

\* the server answers the information query: present with its codes, or absent
ServerReply ==
    /\ ext_state.tag = "Resolving"
    /\ ~conn_closed
    /\ \/ \E i \in ExtensionInfos : ext_state' = Resolved(i)
       \/ ext_state' = Unsupported
    /\ UNCHANGED <<pc, cur, info, ret, sends, queries, conn_closed, observed, sent, calls,
                 platform, pvars, cvars>>

\* the connection fails
CloseConnection ==
    /\ ~conn_closed
    /\ conn_closed' = TRUE
    /\ UNCHANGED <<pc, cur, info, ret, sends, ext_state, queries, observed, sent, calls,
                 platform, pvars, cvars>>

\* RequestConnection::send_request_with_reply: the transport takes the
\* request and returns a cookie for its sequence number, or fails
send_request_with_reply(t, bytes) ==
    /\ sent' = sent + 1
    /\ sends' = [sends EXCEPT ![t] = @ + 1]
    /\ ret' = [ret EXCEPT ![t] = IF conn_closed THEN ConnErr("ConnectionClosed")
                                 ELSE ConnOk([cookie |-> sent + 1, bytes |-> bytes])]

\* Request::serialize(major_opcode): the request's bytes start with the
\* extension's major opcode and the request's minor opcode
request_serialize(req, opcode) == <<opcode, req.minor_opcode>> \o req.fields

---------------------------------------------------------------------------
(* src/protocol/xinerama.rs *)

\* major_opcode that takes opcode 0 for an absent extension
major_opcode_or_default(information) ==
    IF information.tag = "Err" THEN information
    ELSE IF ~information.val.some THEN ConnOk(0)
    ELSE ConnOk(information.val.val.major_opcode)

\* major_opcode(conn), given what conn.extension_information returned
major_opcode(information) ==
    IF information.tag = "Err" THEN information
    ELSE IF ~information.val.some THEN ConnErr("UnsupportedExtension")
    ELSE ConnOk(information.val.val.major_opcode)

\* the public request function up to its call of extension_information:
\* request0 is built and handed to send_<request>
call_request(t, name, req) ==
    /\ pc[t] = "idle"
    /\ calls < MaxCalls
    /\ calls' = calls + 1
    /\ cur' = [cur EXCEPT ![t] = [op |-> name, req |-> req]]
    /\ pc' = [pc EXCEPT ![t] = "major_opcode"]
    /\ UNCHANGED <<info, ret, sends, ext_state, queries, conn_closed, observed, sent,
                 platform, pvars, cvars>>

\* send_<request>(req, conn) from the return of extension_information on
send_request(t, name) ==
    /\ pc[t] = "send"
    /\ cur[t].op = name
    /\ LET opcode == major_opcode(info[t])
       IN IF opcode.tag = "Err"
          THEN /\ ret' = [ret EXCEPT ![t] = opcode]
               /\ UNCHANGED <<sent, sends>>
          ELSE send_request_with_reply(t, request_serialize(cur[t].req, opcode.val))
    /\ pc' = [pc EXCEPT ![t] = "done"]
    /\ UNCHANGED <<cur, info, ext_state, queries, conn_closed, observed, calls,
                 platform, pvars, cvars>>

U8Args == {1}
Windows == {77}
Screens == {0}

QueryVersionRequest(major, minor) == [minor_opcode |-> 0, fields |-> <<major, minor>>]
GetStateRequest(window) == [minor_opcode |-> 1, fields |-> <<window>>]
GetScreenCountRequest(window) == [minor_opcode |-> 2, fields |-> <<window>>]
GetScreenSizeRequest(window, screen) == [minor_opcode |-> 3, fields |-> <<window, screen>>]
IsActiveRequest == [minor_opcode |-> 4, fields |-> <<>>]
QueryScreensRequest == [minor_opcode |-> 5, fields |-> <<>>]

query_version(t) ==
    \E major \in U8Args, minor \in U8Args :
        call_request(t, "query_version", QueryVersionRequest(major, minor))
send_query_version(t) == send_request(t, "query_version")

get_state(t) ==
    \E window \in Windows : call_request(t, "get_state", GetStateRequest(window))
send_get_state(t) == send_request(t, "get_state")

get_screen_count(t) ==
    \E window \in Windows :
        call_request(t, "get_screen_count", GetScreenCountRequest(window))
send_get_screen_count(t) == send_request(t, "get_screen_count")

get_screen_size(t) ==
    \E window \in Windows, screen \in Screens :
        call_request(t, "get_screen_size", GetScreenSizeRequest(window, screen))
send_get_screen_size(t) == send_request(t, "get_screen_size")

is_active(t) == call_request(t, "is_active", IsActiveRequest)
send_is_active(t) == send_request(t, "is_active")

query_screens(t) == call_request(t, "query_screens", QueryScreensRequest)
send_query_screens(t) == send_request(t, "query_screens")

\* trait ConnectionExt: each method calls the function of the same name
xinerama_query_version(t) ==
    \E major \in U8Args, minor \in U8Args :
        call_request(t, "query_version", QueryVersionRequest(major, minor))
xinerama_get_state(t) ==
    \E window \in Windows : call_request(t, "get_state", GetStateRequest(window))
xinerama_get_screen_count(t) ==
    \E window \in Windows :
        call_request(t, "get_screen_count", GetScreenCountRequest(window))
xinerama_get_screen_size(t) ==
    \E window \in Windows, screen \in Screens :
        call_request(t, "get_screen_size", GetScreenSizeRequest(window, screen))
xinerama_is_active(t) == call_request(t, "is_active", IsActiveRequest)
xinerama_query_screens(t) == call_request(t, "query_screens", QueryScreensRequest)

\* the caller takes the result; the thread is free for its next request
Return(t) ==
    /\ pc[t] = "done"
    /\ pc' = [pc EXCEPT ![t] = "idle"]
    /\ cur' = [cur EXCEPT ![t] = NoCall]
    /\ info' = [info EXCEPT ![t] = NoReturn]
    /\ ret' = [ret EXCEPT ![t] = NoReturn]
    /\ sends' = [sends EXCEPT ![t] = 0]
    /\ UNCHANGED <<ext_state, queries, conn_closed, observed, sent, calls,
                 platform, pvars, cvars>>

InitConn ==
    /\ pc = [t \in Threads |-> "idle"]
    /\ cur = [t \in Threads |-> NoCall]
    /\ info = [t \in Threads |-> NoReturn]
    /\ ret = [t \in Threads |-> NoReturn]
    /\ sends = [t \in Threads |-> 0]
    /\ ext_state = Unresolved
    /\ queries = 0
    /\ conn_closed = FALSE
    /\ observed = {}
    /\ sent = 0
    /\ calls = 0

---------------------------------------------------------------------------
(* Specifications *)

\* the packet classifier, on every target and build profile
Init == InitPlatform /\ InitPacket /\ InitCodec /\ InitConn

Next ==
    \/ Receive
    \/ EventTryFromBuffer
    \/ ErrorTryFromBuffer
    \/ ErrorTryFromEvent
    \/ EventFromError
    \/ EventIntoBuffer
    \/ ErrorIntoBuffer
    \/ Inspect

Spec == Init /\ [][Next]_vars

\* the primitive codec, on every target
NextCodec ==
    \/ Serialize
    \/ MoreData
    \/ Input
    \/ TryParse
    \/ Reserialize

SpecCodec == Init /\ [][NextCodec]_vars

\* the Xinerama requests of several threads on one connection; the target
\* plays no part in them
InitXinerama ==
    /\ usize_bits = 64
    /\ overflow_checks = FALSE
    /\ target_endian = "little"
    /\ InitPacket /\ InitCodec /\ InitConn

NextConn ==
    \/ \E t \in Threads : query_version(t)
    \/ \E t \in Threads : send_query_version(t)
    \/ \E t \in Threads : get_state(t)
    \/ \E t \in Threads : send_get_state(t)
    \/ \E t \in Threads : get_screen_count(t)
    \/ \E t \in Threads : send_get_screen_count(t)
    \/ \E t \in Threads : get_screen_size(t)
    \/ \E t \in Threads : send_get_screen_size(t)
    \/ \E t \in Threads : is_active(t)
    \/ \E t \in Threads : send_is_active(t)
    \/ \E t \in Threads : query_screens(t)
    \/ \E t \in Threads : send_query_screens(t)
    \/ \E t \in Threads : xinerama_query_version(t)
    \/ \E t \in Threads : xinerama_get_state(t)
    \/ \E t \in Threads : xinerama_get_screen_count(t)
    \/ \E t \in Threads : xinerama_get_screen_size(t)
    \/ \E t \in Threads : xinerama_is_active(t)
    \/ \E t \in Threads : xinerama_query_screens(t)
    \/ \E t \in Threads : extension_information(t)
    \/ \E t \in Threads : extension_information_wake(t)
    \/ \E t \in Threads : Return(t)
    \/ ServerReply
    \/ CloseConnection

SpecConn == InitXinerama /\ [][NextConn]_vars

---------------------------------------------------------------------------
(* Properties of the packet classifier (specification Spec) *)

\* the 16-bit native-order value of the bytes at offsets 2 and 3
SequenceAt23(b) ==
    IF target_endian = "little" THEN b[3] + 256 * b[4] ELSE 256 * b[3] + b[4]

\* the native-order length field L at offsets 4..7, as <<L % 2^16, L \div 2^16>>
LengthFieldAt4(b) ==
    IF target_endian = "little"
    THEN <<b[5] + 256 * b[6], b[7] + 256 * b[8]>>
    ELSE <<b[8] + 256 * b[7], b[6] + 256 * b[5]>>

\* Len(b) = 32 + 4*L for the reply and generic-event kinds, Len(b) = 32 for
\* the others, in unbounded arithmetic (Len(b) < 2^16 here)
TotalLengthLaw(b) ==
    IF b[1] % 128 \in {1, 35}
    THEN LengthFieldAt4(b)[2] = 0 /\ Len(b) = 32 + 4 * LengthFieldAt4(b)[1]
    ELSE Len(b) = 32

\* C1: GenericEvent::try_from(buffer) succeeds if and only if the buffer has
\* at least 32 bytes and its length is 32 + 4*L for the reply and
\* generic-event kinds (L the native-order u32 at bytes 4..7), 32 for every
\* other kind.
C1_TotalLengthLaw ==
    op = "GenericEvent::try_from(Buffer)" =>
        (value.tag = "GenericEvent"
            <=> (Len(arg.bytes) >= 32 /\ TotalLengthLaw(arg.bytes)))

\* C2: GenericEvent::try_from and GenericError::try_from end with an accepted
\* packet or a typed error, never with a panic.
C2_NeverFaults ==
    op \in {"GenericEvent::try_from(Buffer)", "GenericError::try_from(Buffer)"} =>
        value.tag \in {"GenericEvent", "GenericError", "Err"}

\* C3: narrowing a GenericEvent to a GenericError succeeds iff byte 0 & 0x7f
\* is 0 and fails with ParseError otherwise; GenericError::try_from(buffer)
\* succeeds exactly for 32-byte buffers whose byte 0 has its low 7 bits zero;
\* the error reports byte 1 as its code and bytes 2..3 as its sequence number.
C3_Narrowing ==
    /\ op = "GenericError::try_from(GenericEvent)" =>
        /\ value.tag = "GenericError" <=> arg.bytes[1] % 128 = 0
        /\ value.tag # "GenericError" => value = ParseError
        /\ value.tag = "GenericError" => value.bytes = arg.bytes
    /\ op = "GenericError::try_from(Buffer)" =>
        /\ value.tag = "GenericError"
              <=> (Len(arg.bytes) = 32 /\ arg.bytes[1] % 128 = 0)
        /\ value.tag = "GenericError" => value.bytes = arg.bytes
    /\ (value.tag = "GenericError" /\ view # NoView) =>
        /\ view.error_code = Val(value.bytes[2])
        /\ view.response_type = Val(0)
        /\ view.raw_sequence_number = Val(Some(SequenceAt23(value.bytes)))

\* an error sent by another client (bit 7 set) with sequence number 5 was
\* accepted from its buffer and read
C3_Witness ==
    /\ value.tag = "GenericError"
    /\ op = "GenericError::try_from(Buffer)"
    /\ value.bytes[1] = 128
    /\ view # NoView
    /\ view.raw_sequence_number = Val(Some(5))
    /\ view.error_code = Val(3)

\* C4: for every accepted packet raw_sequence_number is None exactly for the
\* keymap-notify kind and otherwise Some of the native-order u16 at offsets
\* 2 and 3; bit 7 of byte 0 plays no part in it and alone decides
\* server_generated (true iff unset).
C4_SequenceNumber ==
    view # NoView =>
        LET b == value.bytes
            flipped == [value EXCEPT !.bytes[1] = (b[1] + 128) % 256]
        IN /\ view.response_type = Val(b[1] % 128)
           /\ view.raw_sequence_number =
                 IF b[1] % 128 = 11 THEN Val(None) ELSE Val(Some(SequenceAt23(b)))
           /\ view.server_generated = Val(b[1] < 128)
           /\ raw_sequence_number(flipped) = view.raw_sequence_number
           /\ server_generated(flipped) # view.server_generated

\* a keymap-notify event sent by another client was read: no sequence number
C4_Witness ==
    /\ view # NoView
    /\ value.tag = "GenericEvent"
    /\ value.bytes[1] = 139
    /\ view.raw_sequence_number = Val(None)
    /\ view.server_generated = Val(FALSE)

\* C10: every GenericEvent and GenericError has at least 32 bytes, satisfies
\* the total-length law for its kind and holds the bytes of the buffer that
\* was accepted; a GenericError has response type 0; the index reads of the
\* accessors are in bounds; an error made an event narrows back to an error.
C10_PacketInvariant ==
    value.tag \in {"GenericEvent", "GenericError"} =>
        /\ Len(value.bytes) >= 32
        /\ TotalLengthLaw(value.bytes)
        /\ value.bytes = accepted
        /\ value.tag = "GenericError" => value.bytes[1] % 128 = 0
        /\ ~raw_response_type(value).panic
        /\ ~error_code(value).panic
        /\ ~raw_sequence_number(value).panic
        /\ op = "GenericEvent::from(GenericError)" =>
              GenericError_try_from_GenericEvent(value).tag = "GenericError"

---------------------------------------------------------------------------
(* Properties of the primitive codec (specification SpecCodec) *)

\* C7: try_parse(serialize(v)) is Ok((v, empty remainder)) for every
\* primitive type; floats are compared by sign, exponent and mantissa bits.
C7_RoundTrip ==
    (wire_src = "serialize" /\ result # NoResult) =>
        /\ result.tag = "Ok"
        /\ result.val = v_in.val
        /\ result.rem = <<>>

\* a NaN with a payload went through serialize and try_parse
C7_Witness ==
    /\ wire_src = "serialize"
    /\ ty = "f32"
    /\ v_in = AValue(Float(1, 255, <<1, 0>>))
    /\ result.tag = "Ok"

\* C8: try_parse of a type of width w fails with ParseError, reading no byte,
\* when the slice has fewer than w bytes; otherwise it succeeds, reads the
\* first w bytes and no other, decodes the value from them, and returns the
\* slice without its first w bytes.
C8_WidthAndRemainder ==
    result # NoResult =>
        LET w == size_of(ty)
        IN IF Len(wire) < w
           THEN result = ParseErr
           ELSE /\ result.tag = "Ok"
                /\ result.read = 0..(w - 1)
                /\ result.rem = [i \in 1..(Len(wire) - w) |-> wire[w + i]]
                /\ result.val = try_parse(ty, SubSeq(wire, 1, w)).val
                /\ serialize(ty, result.val) = SubSeq(wire, 1, w)
                      \/ (ty = "bool" /\ wire[1] > 1)

\* an f64 was parsed from a slice with trailing bytes, which were returned
C8_Witness ==
    /\ ty = "f64"
    /\ wire_src = "input"
    /\ Len(wire) = 10
    /\ result.tag = "Ok"
    /\ Len(result.rem) = 2

\* C9: a bool parses as true iff the first byte is not 0; a bool serializes
\* to the one byte 1 (true) or 0 (false); so serialize(parse(b)) is b for the
\* bytes 0 and 1 only, and 1 for every other byte.
C9_BoolCodec ==
    ty = "bool" =>
        /\ (result # NoResult /\ Len(wire) >= 1) =>
              /\ result.tag = "Ok"
              /\ result.val = (wire[1] # 0)
        /\ wire_src = "serialize" => wire = <<IF v_in.val THEN 1 ELSE 0>>
        /\ rewire # NoBytes =>
              /\ rewire.bytes = <<IF wire[1] = 0 THEN 0 ELSE 1>>
              /\ (rewire.bytes = <<wire[1]>>) <=> (wire[1] \in {0, 1})

\* the byte 0x07 was parsed as true and serialized again as 0x01
C9_Witness ==
    /\ ty = "bool"
    /\ wire_src = "input"
    /\ Len(wire) >= 1
    /\ wire[1] = 7
    /\ result.tag = "Ok"
    /\ result.val = TRUE
    /\ rewire = Bytes(<<1>>)

---------------------------------------------------------------------------
(* Properties of the Xinerama requests (specification SpecConn) *)

\* C5: in every request function the opcode is resolved before anything is
\* submitted: an absent extension gives UnsupportedExtension, a connection
\* error is returned unchanged, and neither submits anything; after a
\* successful resolution the request is submitted exactly once.
C5_ResolveBeforeSend ==
    \A t \in Threads :
        /\ pc[t] \in {"idle", "major_opcode", "await", "send"} =>
              sends[t] = 0 /\ ret[t] = NoReturn
        /\ pc[t] = "done" =>
              IF info[t].tag = "Err"
              THEN ret[t] = info[t] /\ sends[t] = 0
              ELSE IF info[t] = ConnOk(None)
              THEN ret[t] = ConnErr("UnsupportedExtension") /\ sends[t] = 0
              ELSE /\ sends[t] = 1
                   /\ ret[t].tag = "Ok" =>
                         ret[t].val.bytes[1] = info[t].val.val.major_opcode

\* the server reported the extension absent: two request functions were
\* called, one has returned UnsupportedExtension, nothing was submitted
C5_Witness ==
    /\ sent = 0
    /\ calls >= 2
    /\ ext_state = Unsupported
    /\ \E t \in Threads :
          /\ pc[t] = "done"
          /\ info[t] = ConnOk(None)
          /\ ret[t] = ConnErr("UnsupportedExtension")

\* C6: the information query is issued at most once per connection, however
\* the requests interleave; every successful resolution returns the same
\* ExtensionInfo; once the extension is known to be absent every call
\* returns UnsupportedExtension and nothing more goes to the transport.
C6_ResolveOnce ==
    /\ queries <= 1
    /\ Cardinality(observed) <= 1
    /\ \A t \in Threads : info[t].tag = "Ok" => info[t] = cached_information(ext_state)
    /\ ext_state.tag \in {"Resolving", "Resolved", "Unsupported"} => queries = 1
    /\ ext_state = Unsupported =>
          /\ sent = 0
          /\ \A t \in Threads :
                pc[t] = "done" => ret[t] = ConnErr("UnsupportedExtension")

\* two threads raced to resolve the extension, one query was issued, and a
\* later call got the cached answer
C6_Witness ==
    /\ queries = 1
    /\ calls >= 3
    /\ \E t1, t2 \in Threads :
          /\ t1 # t2
          /\ pc[t1] = "await" /\ pc[t2] = "done"
          /\ info[t2] = ConnOk(None)

============================================================================
